---- MODULE Spec2Model ----
(***************************************************************************)
(* S.Y.N.Cvoice: the deterministic rule evaluation and scoring engine      *)
(* (src/src/predict.py, src/src/guardrails_rules.py).                      *)
(*                                                                         *)
(* A text is a sequence of one-character strings, so that lower-casing,    *)
(* trimming, whitespace splitting and substring containment are computed   *)
(* as Python computes them.  The character U+2019 is written "RSQUO".      *)
(*                                                                         *)
(* A Python float is an IEEE-754 binary64 value.  It is modelled exactly   *)
(* as a pair [n, e] standing for  n/200 + e/(200 * 2^60): n is the decimal *)
(* the source writes (in units of 0.005) and e is the accumulated binary   *)
(* rounding error.  Every operation rounds to nearest, ties to even.       *)
(***************************************************************************)
EXTENDS Integers, Sequences, FiniteSets, TLC

(***************************************************************************)
(* Bounds of the explored inputs.                                          *)
(***************************************************************************)
MaxLen == 3
MaxParts == 4
MaxTerms == 2

(***************************************************************************)
(* Python str operations.                                                  *)
(***************************************************************************)
UpperCase ==
  <<"A","B","C","D","E","F","G","H","I","J","K","L","M",
    "N","O","P","Q","R","S","T","U","V","W","X","Y","Z">>

LowerCase ==
  <<"a","b","c","d","e","f","g","h","i","j","k","l","m",
    "n","o","p","q","r","s","t","u","v","w","x","y","z">>

Whitespace == {" ", "\t", "\n"}

LowerOf ==
  [c \in {UpperCase[i] : i \in 1..26} |->
     LowerCase[CHOOSE i \in 1..26 : UpperCase[i] = c]]

UpperSet == DOMAIN LowerOf

LowerChar(c) == IF c \in UpperSet THEN LowerOf[c] ELSE c

\* str.lower()
lower(s) == [i \in 1..Len(s) |-> LowerChar(s[i])]

\* the positions of s that satisfy Test, in increasing order
Positions(s, Test(_)) == SelectSeq([i \in 1..Len(s) |-> i], Test)

\* str.strip()
strip(s) ==
  LET keep == Positions(s, LAMBDA i : s[i] \notin Whitespace)
  IN IF keep = <<>> THEN <<>> ELSE SubSeq(s, keep[1], keep[Len(keep)])

\* str.split() with no separator: the maximal runs of non-whitespace
split(s) ==
  LET starts == Positions(s, LAMBDA i :
                   s[i] \notin Whitespace /\ (i = 1 \/ s[i - 1] \in Whitespace))
      ends == Positions(s, LAMBDA i :
                 s[i] \notin Whitespace /\ (i = Len(s) \/ s[i + 1] \in Whitespace))
  IN [k \in 1..Len(starts) |-> SubSeq(s, starts[k], ends[k])]

RECURSIVE join(_, _)
\* sep.join(words)
join(sep, words) ==
  IF words = <<>> THEN <<>>
  ELSE IF Len(words) = 1 THEN words[1]
  ELSE words[1] \o sep \o join(sep, Tail(words))

\* the Python operator  p in t  on two strings
contains(t, p) ==
  \E i \in 0..(Len(t) - Len(p)) : \A j \in 1..Len(p) : t[i + j] = p[j]

(***************************************************************************)
(* Python float arithmetic (IEEE-754 binary64).                            *)
(***************************************************************************)
RECURSIVE Pow2(_)
Pow2(k) == IF k = 0 THEN 1 ELSE 2 * Pow2(k - 1)

RECURSIVE Pow2Mod(_, _)
Pow2Mod(k, m) == IF k = 0 THEN 1 % m ELSE (2 * Pow2Mod(k - 1, m)) % m

\* the binades [2^k, 2^(k+1)) that the values of this program fall in
Binades == -8..2
PowerOfTwo == [k \in 0..10 |-> Pow2(k)]

\* the unit in the last place of the binade [2^k, 2^(k+1)), in units of 2^-60
Ulp == [k \in Binades |-> PowerOfTwo[k + 8]]

\* 2^60 modulo twice the spacing 200 * Ulp[k] of the binade's values
Pow60Mod == [k \in Binades |-> Pow2Mod(60, 400 * Ulp[k])]

\* n/200 + e/(200*2^60) >= 2^k, for a positive value
AtLeastPow2(n, e, k) ==
  IF k >= 0
  THEN n > 200 * PowerOfTwo[k] \/ (n = 200 * PowerOfTwo[k] /\ e >= 0)
  ELSE n * PowerOfTwo[-k] > 200 \/ (n * PowerOfTwo[-k] = 200 /\ e >= 0)

RECURSIVE BinadeFrom(_, _, _)
BinadeFrom(n, e, k) ==
  IF k - 1 \notin Binades \/ AtLeastPow2(n, e, k) THEN k ELSE BinadeFrom(n, e, k - 1)

\* the binade of a positive value: the largest k with value >= 2^k
Binade(n, e) == BinadeFrom(n, e, 2)

\* the neighbour of a positive exact value on a grid of spacing m, where r2
\* is the value modulo 2m and r the value modulo m: the nearest, ties to even
Nearest(n, e, m, r2, r) ==
  IF 2 * r < m \/ (2 * r = m /\ r2 = r)
  THEN [n |-> n, e |-> e - r]
  ELSE [n |-> n, e |-> e + (m - r)]

RoundOnGrid(n, e, m, r2) == Nearest(n, e, m, r2, r2 % m)

\* the binary64 values of the binade k are 200 * Ulp[k] apart
RoundInBinade(n, e, k) ==
  RoundOnGrid(n, e, 200 * Ulp[k], (n * Pow60Mod[k] + e) % (400 * Ulp[k]))

\* round a positive exact value to the nearest binary64, ties to even
RoundPos(n, e) == RoundInBinade(n, e, Binade(n, e))

\* the sign of n/200 + e/(200*2^60), where |e| is far below 2^60
Sign(n, e) ==
  IF n = 0 /\ e = 0 THEN 0 ELSE IF n > 0 \/ (n = 0 /\ e > 0) THEN 1 ELSE -1

Scale(s, a) == [n |-> s * a.n, e |-> s * a.e]

RoundSigned(s, n, e) ==
  IF s = 0 THEN [n |-> 0, e |-> 0] ELSE Scale(s, RoundPos(s * n, s * e))

Round(n, e) == RoundSigned(Sign(n, e), n, e)

\* a decimal literal of the source, given in units of 0.005
Lit(n) == Round(n, 0)

FAdd(a, b) == Round(a.n + b.n, a.e + b.e)
FSub(a, b) == Round(a.n - b.n, a.e - b.e)
\* float * int
FMulInt(a, k) == Round(a.n * k, a.e * k)
\* float * 0.5 (exact)
FHalf(a) == [n |-> a.n \div 2, e |-> a.e \div 2]
FGeq(a, b) == a.n > b.n \/ (a.n = b.n /\ a.e >= b.e)
FMin(a, b) == IF FGeq(a, b) THEN b ELSE a
FMax(a, b) == IF FGeq(a, b) THEN a ELSE b

(***************************************************************************)
(* Python values.  The text argument of predict may be any value; the      *)
(* model distinguishes str, None, int and list.                            *)
(***************************************************************************)
PyStr(s) == [kind |-> "str", chars |-> s, num |-> 0]
PyNone == [kind |-> "NoneType", chars |-> <<>>, num |-> 0]
PyInt(k) == [kind |-> "int", chars |-> <<>>, num |-> k]
PyList(items) == [kind |-> "list", chars |-> items, num |-> 0]

\* bool(v)
Truthy(v) ==
  CASE v.kind = "NoneType" -> FALSE
    [] v.kind = "int" -> v.num # 0
    [] OTHER -> v.chars # <<>>

\* v or ""
OrEmpty(v) == IF Truthy(v) THEN v ELSE PyStr(<<>>)

(***************************************************************************)
(* A dict is a sequence of <<key, value>> pairs in insertion order.        *)
(***************************************************************************)
DictKeys(d) == {d[i][1] : i \in 1..Len(d)}
DictGet(d, k) == d[CHOOSE i \in 1..Len(d) : d[i][1] = k][2]
\* d[k] = v
DictSet(d, k, v) ==
  IF k \in DictKeys(d)
  THEN [i \in 1..Len(d) |-> IF d[i][1] = k THEN <<k, v>> ELSE d[i]]
  ELSE Append(d, <<k, v>>)
DictValues(d) == [i \in 1..Len(d) |-> d[i][2]]

\* any(bool(v) for v in values)
AnyTrue(vals) == \E i \in 1..Len(vals) : vals[i]
\* sum(1 for v in values if v)
CountTrue(vals) == Cardinality({i \in 1..Len(vals) : vals[i]})

Min2(a, b) == IF a <= b THEN a ELSE b

(***************************************************************************)
(* Module state of guardrails_rules: the loaded rule documents.            *)
(***************************************************************************)
VARIABLES
  RULES,          \* RULES["never_say"]: the sequence of never-say terms
  SUBSTITUTIONS,  \* SUBSTITUTIONS["substitutions"]: <<bad, good>> pairs
  text,           \* the text argument of the call
  threshold,      \* the threshold argument, in hundredths
  pc,             \* "ready" before the call, "done" after it
  frame,          \* predict's local variables when the call ended
  out             \* what the call produced

vars == <<RULES, SUBSTITUTIONS, text, threshold, pc, frame, out>>

POSITIVE_SIGNALS ==
  <<
    <<<<"s","t","a","t","e","_","b","a","s","e","d">>, <<
        <<"s","t","a","t","e">>,
        <<"r","i","g","h","t"," ","n","o","w">>,
        <<"t","o","d","a","y">>,
        <<"i","n"," ","t","h","i","s"," ","m","o","m","e","n","t">>,
        <<"t","e","m","p","o","r","a","r","y">>,
        <<"c","u","r","r","e","n","t">> >> >>,
    <<<<"s","i","g","n","a","l","_","b","a","s","e","d">>, <<
        <<"s","i","g","n","a","l">>,
        <<"s","i","g","n","a","l","s">>,
        <<"i","n","f","o","r","m","a","t","i","o","n">>,
        <<"d","a","t","a"," ","p","o","i","n","t">>,
        <<"y","o","u","r"," ","s","y","s","t","e","m"," ","i","s"," ","s","e","n","d","i","n","g">>,
        <<"y","o","u","r"," ","b","o","d","y"," ","i","s"," ","s","e","n","d","i","n","g">> >> >>,
    <<<<"c","a","p","a","c","i","t","y","_","h","o","n","o","r","i","n","g">>, <<
        <<"c","a","p","a","c","i","t","y">>,
        <<"a","t"," ","y","o","u","r"," ","p","a","c","e">>,
        <<"a","s"," ","y","o","u","'","r","e"," ","a","b","l","e">>,
        <<"w","h","a","t","RSQUO","s"," ","p","o","s","s","i","b","l","e">>,
        <<"w","h","a","t"," ","i","s"," ","p","o","s","s","i","b","l","e">>,
        <<"m","e","e","t"," ","y","o","u","r","s","e","l","f"," ","w","h","e","r","e">> >> >>,
    <<<<"r","e","g","u","l","a","t","i","o","n","_","f","o","c","u","s","e","d">>, <<
        <<"r","e","g","u","l","a","t","i","o","n">>,
        <<"r","e","g","u","l","a","t","e">>,
        <<"s","u","p","p","o","r","t"," ","r","e","g","u","l","a","t","i","o","n">>,
        <<"s","t","e","a","d","y">>,
        <<"s","e","t","t","l","e">>,
        <<"g","r","o","u","n","d">>,
        <<"p","a","u","s","e">>,
        <<"b","r","e","a","t","h","e">> >> >>,
    <<<<"i","n","t","e","g","r","a","t","i","o","n","_","o","r","i","e","n","t","e","d">>, <<
        <<"i","n","t","e","g","r","a","t","i","o","n">>,
        <<"c","a","r","r","y"," ","t","h","i","s">>,
        <<"c","a","r","r","y"," ","t","h","a","t">>,
        <<"i","n","t","o"," ","y","o","u","r"," ","n","e","x","t"," ","m","o","m","e","n","t">>,
        <<"i","n","t","o"," ","l","i","f","e">>,
        <<"b","e","y","o","n","d"," ","t","h","i","s">> >> >>,
    <<<<"c","h","o","i","c","e","_","l","e","d">>, <<
        <<"c","h","o","o","s","e">>,
        <<"c","h","o","i","c","e">>,
        <<"i","f"," ","i","t"," ","f","i","t","s">>,
        <<"d","o","e","s"," ","t","h","a","t"," ","f","i","t">>,
        <<"y","o","u"," ","c","a","n">>,
        <<"y","o","u","RSQUO","r","e"," ","a","l","l","o","w","e","d">>,
        <<"o","p","t","i","o","n","a","l">>,
        <<"i","n","v","i","t","e">>,
        <<"i","n","v","i","t","a","t","i","o","n","a","l">> >> >>
  >>

TONE_TAGS ==
  <<
    <<<<"i","n","v","i","t","a","t","i","o","n","a","l">>, <<
        <<"i","n","v","i","t","e">>,
        <<"i","n","v","i","t","a","t","i","o","n","a","l">>,
        <<"y","o","u"," ","c","a","n">>,
        <<"y","o","u","RSQUO","r","e"," ","a","l","l","o","w","e","d">>,
        <<"i","f"," ","y","o","u"," ","w","a","n","t">>,
        <<"o","p","t","i","o","n","a","l">> >> >>,
    <<<<"s","h","a","m","e","_","f","r","e","e">>, <<
        <<"n","o"," ","s","h","a","m","e">>,
        <<"w","i","t","h","o","u","t"," ","s","h","a","m","e">>,
        <<"n","o"," ","j","u","d","g","m","e","n","t">>,
        <<"n","o","n","-","j","u","d","g","m","e","n","t">>,
        <<"g","e","n","t","l","e">> >> >>,
    <<<<"b","o","d","y","_","l","e","d">>, <<
        <<"b","o","d","y">>,
        <<"n","e","r","v","o","u","s"," ","s","y","s","t","e","m">>,
        <<"s","o","m","a","t","i","c">>,
        <<"b","r","e","a","t","h">>,
        <<"b","r","e","a","t","h","e">>,
        <<"g","r","o","u","n","d">>,
        <<"p","a","u","s","e">> >> >>,
    <<<<"n","o","n","_","u","r","g","e","n","t">>, <<
        <<"a","t"," ","y","o","u","r"," ","p","a","c","e">>,
        <<"w","h","e","n"," ","y","o","u","'","r","e"," ","r","e","a","d","y">>,
        <<"n","o"," ","r","u","s","h">>,
        <<"t","a","k","e"," ","y","o","u","r"," ","t","i","m","e">>,
        <<"s","l","o","w">> >> >>,
    <<<<"c","h","o","i","c","e","_","l","e","d">>, <<
        <<"c","h","o","o","s","e">>,
        <<"c","h","o","i","c","e">>,
        <<"i","f"," ","i","t"," ","f","i","t","s">>,
        <<"d","o","e","s"," ","t","h","a","t"," ","f","i","t">>,
        <<"y","o","u"," ","d","e","c","i","d","e">> >> >>
  >>

pressure_terms ==
  << <<"m","u","s","t">>,
     <<"n","o","w">>,
     <<"f","i","x">>,
     <<"u","r","g","e","n","t">>,
     <<"i","m","m","e","d","i","a","t","e","l","y">>,
     <<"p","u","s","h"," ","t","h","r","o","u","g","h">>,
     <<"s","h","o","u","l","d">> >>

BlockedPrefix == <<"b","l","o","c","k","e","d","_","t","e","r","m",":">>
PressurePrefix == <<"p","r","e","s","s","u","r","e",":">>
RiskPrefixes == { <<"p","r","e","s","s","u","r","e">>,
                  <<"s","h","a","m","e">>,
                  <<"u","r","g","e","n","c","y">> }

\* a slip: equality where a prefix test is meant
startswith_exact(s, p) == s = p

\* str.startswith(prefix)
startswith(s, p) == Len(s) >= Len(p) /\ SubSeq(s, 1, Len(p)) = p

(***************************************************************************)
(* guardrails_rules.py                                                     *)
(***************************************************************************)
RECURSIVE rule_flags_loop(_, _, _)
rule_flags_loop(never, lowered, acc) ==
  IF never = <<>> THEN acc
  ELSE LET term == Head(never)
       IN rule_flags_loop(Tail(never), lowered,
            DictSet(acc, BlockedPrefix \o term, contains(lowered, lower(term))))

rule_flags(s) == rule_flags_loop(RULES, lower(s), <<>>)

RECURSIVE behavior_flags_loop(_, _, _)
behavior_flags_loop(terms, lowered, acc) ==
  IF terms = <<>> THEN acc
  ELSE behavior_flags_loop(Tail(terms), lowered,
         DictSet(acc, PressurePrefix \o Head(terms), contains(lowered, Head(terms))))

behavior_flags(s) == behavior_flags_loop(pressure_terms, lower(s), <<>>)

GuidanceRevise ==
  << "Use **State** language (temporary) instead of identity language.",
     "Name **Signals** as information, not flaws or symptoms.",
     "Honor **Capacity** (offer options, remove urgency).",
     "Support **Regulation** without force (gentle, body-led).",
     "Add **Integration** (how to carry steadiness into the next moment)." >>

GuidanceAligned ==
  << "Language feels invitational, shame-free, and choice-led.",
     "Optional: add one capacity line (e.g., 'if it fits today')." >>

guidance(rule_flag_dict) ==
  IF AnyTrue(DictValues(rule_flag_dict)) THEN GuidanceRevise ELSE GuidanceAligned

RECURSIVE substitution_loop(_, _, _)
substitution_loop(subs, lowered, hits) ==
  IF subs = <<>> THEN hits
  ELSE LET bad == Head(subs)[1]
           good == Head(subs)[2]
       IN substitution_loop(Tail(subs), lowered,
            IF contains(lowered, lower(bad))
            THEN Append(hits, <<"Replace", bad, good>>)
            ELSE hits)

substitution_suggestions(s) == substitution_loop(SUBSTITUTIONS, lower(s), <<>>)

(***************************************************************************)
(* predict.py                                                              *)
(***************************************************************************)
_normalize(s) == join(<<" ">>, split(lower(strip(s))))

Phrases(tag_map) ==
  UNION { {tag_map[i][2][j] : j \in 1..Len(tag_map[i][2])} : i \in 1..Len(tag_map) }

\* p.lower().strip() of every configured phrase
PhraseNorm ==
  [p \in Phrases(POSITIVE_SIGNALS) \cup Phrases(TONE_TAGS) |-> strip(lower(p))]

\* if p_norm and p_norm in t: hits += 1
phrase_hit(t, p_norm) == IF p_norm # <<>> /\ contains(t, p_norm) THEN 1 ELSE 0

RECURSIVE count_hits_loop(_, _)
count_hits_loop(t, phrases) ==
  IF phrases = <<>> THEN 0
  ELSE phrase_hit(t, PhraseNorm[Head(phrases)]) + count_hits_loop(t, Tail(phrases))

_count_hits(s, phrases) == count_hits_loop(_normalize(s), phrases)

RECURSIVE InsertDesc(_, _)
\* x goes after every entry whose score is >= its own
InsertDesc(sorted, x) ==
  IF sorted = <<>> THEN <<x>>
  ELSE IF FGeq(Head(sorted)[2], x[2])
       THEN <<Head(sorted)>> \o InsertDesc(Tail(sorted), x)
       ELSE <<x>> \o sorted

RECURSIVE SortDesc(_)
\* sorted(pairs, key=lambda x: x[1], reverse=True): stable
SortDesc(pairs) ==
  IF pairs = <<>> THEN <<>>
  ELSE InsertDesc(SortDesc(SubSeq(pairs, 1, Len(pairs) - 1)), pairs[Len(pairs)])

TagScoreBase == Lit(90)    \* 0.45
TagScoreStep == Lit(36)    \* 0.18
TagScoreCap == Lit(184)    \* 0.92

\* min(0.92, 0.45 + 0.18 * min(h, 3))
tag_score(h) ==
  FMin(FAdd(TagScoreBase, FMulInt(TagScoreStep, Min2(h, 3))), TagScoreCap)

\* if h > 0: scored.append((tag, score))
tag_entry(tag, h) == IF h > 0 THEN << <<tag, tag_score(h)>> >> ELSE <<>>

RECURSIVE score_tags_loop(_, _)
score_tags_loop(s, tag_map) ==
  IF tag_map = <<>> THEN <<>>
  ELSE tag_entry(Head(tag_map)[1], _count_hits(s, Head(tag_map)[2]))
       \o score_tags_loop(s, Tail(tag_map))

_score_tags(s, tag_map) == SortDesc(score_tags_loop(s, tag_map))

conf_high == Lit(140)      \* 0.70
conf_med == Lit(100)       \* 0.50

\* a slip: the medium cut at 0.60
confidence_bucket_late_medium(conf) ==
  IF FGeq(conf, conf_high) THEN "high"
  ELSE IF FGeq(conf, Lit(120)) THEN "medium"
  ELSE "low"

confidence_bucket(conf) ==
  IF FGeq(conf, conf_high) THEN "high"
  ELSE IF FGeq(conf, conf_med) THEN "medium"
  ELSE "low"

RouteRule == "Rule-triggered: revise language first (remove pressure/fixing/hustle). Then re-check."
RouteHigh == "High confidence: show tone behaviors + targeted suggestions. Human approves final copy."
RouteMedium == "Medium confidence: show top tags + ask 2 clarifying questions before recommending edits."
RouteLow == "Low confidence: insufficient signal. Ask for audience + intent + channel. Suggest substitutions."

\* a slip: the confidence branches tried before the rule branch
route_message_rule_last(bucket, rule_triggered, behaviors_count) ==
  IF bucket = "high" /\ behaviors_count >= 1 THEN RouteHigh
  ELSE IF rule_triggered THEN RouteRule
  ELSE IF bucket \in {"high", "medium"} THEN RouteMedium
  ELSE RouteLow

route_message(bucket, rule_triggered, behaviors_count) ==
  IF rule_triggered THEN RouteRule
  ELSE IF bucket = "high" /\ behaviors_count >= 1 THEN RouteHigh
  ELSE IF bucket \in {"high", "medium"} THEN RouteMedium
  ELSE RouteLow

\* the pairs of a flag dict whose value is true, each with the given score
Triggered(flags, score) ==
  SelectSeq([i \in 1..Len(flags) |-> <<flags[i][1], score, flags[i][2]>>],
            LAMBDA x : x[3])

DropFlag(triples) == [i \in 1..Len(triples) |-> <<triples[i][1], triples[i][2]>>]

RECURSIVE dedup_loop(_, _, _)
dedup_loop(pairs, seen, acc) ==
  IF pairs = <<>> THEN acc
  ELSE IF Head(pairs)[1] \in seen THEN dedup_loop(Tail(pairs), seen, acc)
  ELSE dedup_loop(Tail(pairs), seen \cup {Head(pairs)[1]}, Append(acc, Head(pairs)))

\* de-dup by name over the pairs sorted by descending score
Dedup(pairs) == dedup_loop(SortDesc(pairs), {}, <<>>)

\* a slip: the cut to the top k left out
Take_uncut(s, k) == s

\* seq[:k]
Take(s, k) == SubSeq(s, 1, Min2(Len(s), k))

\* the float(threshold) argument: hundredths to a binary64
ThresholdFloat(th) == Lit(2 * th)

ShowBase == Lit(90)        \* 0.45
ShowCentre == Lit(100)     \* 0.5

\* a slip: the distance from the centre doubled instead of halved
show_min_doubled(th) ==
  FAdd(ShowBase, FMulInt(FSub(ThresholdFloat(th), ShowCentre), 2))

show_min(th) == FAdd(ShowBase, FHalf(FSub(ThresholdFloat(th), ShowCentre)))

\* a slip: the comparison of the filter turned round
Surface_inverted(pairs, floor) == SelectSeq(pairs, LAMBDA x : FGeq(floor, x[2]))

\* [(n, s) for (n, s) in pairs if s >= floor]
Surface(pairs, floor) == SelectSeq(pairs, LAMBDA x : FGeq(x[2], floor))

(***************************************************************************)
(* predict(text, threshold): the local variables of the call just before   *)
(* the threshold filter (lines 142-205), for a str argument raw.           *)
(***************************************************************************)
RuleRisk == Lit(198)       \* 0.99
BehaviorRisk == Lit(180)   \* 0.90
BehaviorTone == Lit(170)   \* 0.85
ConfStart == Lit(84)       \* 0.42
ConfPerPositive == Lit(16) \* 0.08
ConfPerTone == Lit(10)     \* 0.05
RulePenalty == Lit(36)     \* 0.18
PressurePenalty == Lit(12) \* 0.06
ConfFloor == Lit(10)       \* 0.05
ConfCeiling == Lit(184)    \* 0.92

\* the triggered behavior flags whose key starts with a risk prefix, at 0.90
risk_behaviors(bf) ==
  SelectSeq(DropFlag(Triggered(bf, BehaviorRisk)),
            LAMBDA x : \E p \in RiskPrefixes : startswith(x[1], p))

\* lines 157-174: rule risks then behavior risks, ranked, de-duplicated, cut
risks_ranked(rf, bf) ==
  Take(Dedup(DropFlag(Triggered(rf, RuleRisk)) \o risk_behaviors(bf)), 10)

\* lines 177-190: tone evidence then behavior flags, ranked, de-duplicated, cut
tones_ranked(tone_evidence, bf) ==
  Take(Dedup(tone_evidence \o DropFlag(Triggered(bf, BehaviorTone))), 8)

\* base = 0.42; base += 0.08 * min(P, 5); base += 0.05 * min(T, 4)
base_evidence(P, T) ==
  FAdd(FAdd(ConfStart, FMulInt(ConfPerPositive, Min2(P, 5))),
       FMulInt(ConfPerTone, Min2(T, 4)))

\* if rule_triggered: base -= 0.18
base_rule(base, rule_triggered) ==
  IF rule_triggered THEN FSub(base, RulePenalty) ELSE base

\* if behaviors_count >= 3: base -= 0.06
base_pressure(base, behaviors_count) ==
  IF behaviors_count >= 3 THEN FSub(base, PressurePenalty) ELSE base

\* conf = max(0.05, min(0.92, base))
clamp_conf(base) == FMax(ConfFloor, FMin(base, ConfCeiling))

LocalsBucket(rf, bf, rule_triggered, behaviors_count, positive_evidence, tone_evidence, base, conf) ==
  [ rf |-> rf, bf |-> bf,
    rule_triggered |-> rule_triggered,
    behaviors_count |-> behaviors_count,
    positive_evidence |-> positive_evidence,
    tone_evidence |-> tone_evidence,
    risks |-> risks_ranked(rf, bf),
    tones |-> tones_ranked(tone_evidence, bf),
    base |-> base, conf |-> conf,
    bucket |-> confidence_bucket(conf) ]

LocalsConf(rf, bf, rule_triggered, behaviors_count, positive_evidence, tone_evidence, base) ==
  LocalsBucket(rf, bf, rule_triggered, behaviors_count, positive_evidence,
               tone_evidence, base, clamp_conf(base))

LocalsBase(rf, bf, rule_triggered, behaviors_count, positive_evidence, tone_evidence) ==
  LocalsConf(rf, bf, rule_triggered, behaviors_count, positive_evidence,
             tone_evidence,
             base_pressure(
               base_rule(base_evidence(Len(positive_evidence), Len(tone_evidence)),
                         rule_triggered),
               behaviors_count))

LocalsFlags(rf, bf, positive_evidence, tone_evidence) ==
  LocalsBase(rf, bf, AnyTrue(DictValues(rf)), CountTrue(DictValues(bf)),
             positive_evidence, tone_evidence)

Locals(raw) ==
  LocalsFlags(rule_flags(raw), behavior_flags(raw),
              _score_tags(raw, POSITIVE_SIGNALS), _score_tags(raw, TONE_TAGS))

NoLocals ==
  [ rf |-> <<>>, bf |-> <<>>, rule_triggered |-> FALSE, behaviors_count |-> 0,
    positive_evidence |-> <<>>, tone_evidence |-> <<>>, risks |-> <<>>,
    tones |-> <<>>, base |-> Lit(0), conf |-> Lit(0), bucket |-> "" ]

FinalGate == "Does this copy help someone listen to themselves without pressure?"

\* the returned dict (lines 207-229)
Result(raw, th, l) ==
  [ confidence_bucket |-> l.bucket,
    confidence_score |-> l.conf,
    tone_tags |-> Surface(l.tones, show_min(th)),
    risk_flags |-> Surface(l.risks, show_min(th)),
    behavior_flags |-> l.bf,
    rule_flags |-> l.rf,
    rewrite_guidance |-> guidance(l.rf),
    substitution_suggestions |-> substitution_suggestions(raw),
    routing |-> route_message(l.bucket, l.rule_triggered, l.behaviors_count),
    final_gate_question |-> FinalGate ]

NoResult ==
  [ confidence_bucket |-> "", confidence_score |-> Lit(0), tone_tags |-> <<>>,
    risk_flags |-> <<>>, behavior_flags |-> <<>>, rule_flags |-> <<>>,
    rewrite_guidance |-> <<>>, substitution_suggestions |-> <<>>,
    routing |-> "", final_gate_question |-> "" ]

\* raw = text or ""; _normalize(raw) calls raw.strip(), which only a str has
Raises(v) == OrEmpty(v).kind # "str"

\* the outcome of predict(v, th): a returned dict or a raised AttributeError
predict(v, th) ==
  IF Raises(v)
  THEN [status |-> "raised", value |-> NoResult]
  ELSE LET raw == OrEmpty(v).chars
       IN [status |-> "returned", value |-> Result(raw, th, Locals(raw))]

(***************************************************************************)
(* The explored inputs.                                                    *)
(*                                                                         *)
(* Short texts: every string of at most MaxLen characters over a small     *)
(* alphabet with two cases and two kinds of whitespace, against every      *)
(* never-say list of at most MaxTerms terms over the same alphabet, the     *)
(* empty term and the one-space term included.                             *)
(***************************************************************************)
Alphabet == {"a", "B", " ", "\t"}

RECURSIVE StringsUpTo(_)
StringsUpTo(k) ==
  IF k = 0 THEN {<<>>}
  ELSE LET shorter == StringsUpTo(k - 1)
       IN shorter \cup {Append(s, c) : s \in {x \in shorter : Len(x) = k - 1}, c \in Alphabet}

ShortTerms == { <<"a"," ","b">>, <<"B">>, <<" ","a">>, <<"a","b">>, <<" ">>, <<>> }

RECURSIVE ListsUpTo(_, _)
ListsUpTo(S, k) ==
  IF k = 0 THEN {<<>>}
  ELSE LET shorter == ListsUpTo(S, k - 1)
       IN shorter \cup {Append(s, x) : s \in {y \in shorter : Len(y) = k - 1}, x \in S}

ShortSubstitutions ==
  << << <<"a","b">>, "x" >>, << <<"B">>, "y" >>, << <<"a"," ","b">>, "z" >> >>

(***************************************************************************)
(* Copy: a text is some of the snippets below, at most MaxParts of them,   *)
(* in this order, joined by single spaces.                                 *)
(***************************************************************************)
Snippets ==
  << <<"Y","o","u"," ","M","U","S","T"," ","f","i","x"," ","t","h","i","s"," ","n","o","w">>,
     <<"u","r","g","e","n","t",":"," ","p","u","s","h"," ","t","h","r","o","u","g","h"," ","i","m","m","e","d","i","a","t","e","l","y",","," ","y","o","u"," ","s","h","o","u","l","d">>,
     <<"i","n","v","i","t","e",","," ","o","p","t","i","o","n","a","l",","," ","i","f"," ","y","o","u"," ","w","a","n","t">>,
     <<"b","r","e","a","t","h","e",","," ","g","r","o","u","n","d",","," ","p","a","u","s","e">>,
     <<"t","o","d","a","y"," ","y","o","u","r"," ","c","a","p","a","c","i","t","y"," ","i","s"," ","a"," ","s","i","g","n","a","l">>,
     <<"i","n","t","e","g","r","a","t","i","o","n",","," ","g","e","n","t","l","e">>,
     <<"n","o"," ","r","u","s","h",","," ","y","o","u"," ","c","h","o","o","s","e">>,
     <<"n","o"," ","m","o","r","e"," ","e","x","c","u","s","e","s",","," ","s","t","a","r","t"," ","n","o","w">> >>

RECURSIVE Compose(_, _)
Compose(chosen, i) ==
  IF i > Len(Snippets) THEN <<>>
  ELSE IF i \in chosen THEN <<Snippets[i]>> \o Compose(chosen, i + 1)
  ELSE Compose(chosen, i + 1)

CopyTexts ==
  { join(<<" ">>, Compose(chosen, 1)) :
      chosen \in {c \in SUBSET (1..Len(Snippets)) : Cardinality(c) <= MaxParts} }

NeverSayNone == <<>>
NeverSayPhrases == << <<"e","x","c","u","s","e","s">>, <<"M","u","s","t"," ","F","i","x">> >>
NeverSayPressure == << <<"m","u","s","t">>, <<"f","i","x">>, <<"n","o","w">>, <<"u","r","g","e","n","t">> >>

CopyRules == {NeverSayNone, NeverSayPhrases, NeverSayPressure}

CopySubstitutions ==
  << << <<"f","i","x">>, "tend to" >>, << <<"e","x","c","u","s","e","s">>, "reasons" >> >>

\* thresholds in hundredths: the slider's range is 20..90
SliderMin == 20
SliderMax == 90
Thresholds == {10, 20, 50, 86, 90, 130, 200}
\* the thresholds of the explored calls
CallThresholds == {10, 50, 90, 130}

NonStrings == {PyNone, PyInt(0), PyInt(123), PyList(<<>>), PyList(<<"x">>)}

Init ==
  /\ pc = "ready"
  /\ frame = NoLocals
  /\ out = [status |-> "none", value |-> NoResult]
  /\ \/ /\ text \in {PyStr(s) : s \in StringsUpTo(MaxLen)}
        /\ RULES \in ListsUpTo(ShortTerms, MaxTerms)
        /\ SUBSTITUTIONS = ShortSubstitutions
        /\ threshold = 50
     \/ /\ text \in {PyStr(s) : s \in CopyTexts} \cup NonStrings
        /\ RULES \in CopyRules
        /\ SUBSTITUTIONS = CopySubstitutions
        /\ threshold \in CallThresholds

(***************************************************************************)
(* predict(text, threshold) returns.                                       *)
(***************************************************************************)
Predict ==
  /\ pc = "ready"
  /\ ~Raises(text)
  /\ frame' = Locals(OrEmpty(text).chars)
  /\ out' = [status |-> "returned",
             value |-> Result(OrEmpty(text).chars, threshold, frame')]
  /\ pc' = "done"
  /\ UNCHANGED <<RULES, SUBSTITUTIONS, text, threshold>>

(***************************************************************************)
(* predict(text, threshold) raises: raw.strip() on a value that is not a   *)
(* str.                                                                    *)
(***************************************************************************)
PredictRaises ==
  /\ pc = "ready"
  /\ Raises(text)
  /\ out' = [status |-> "raised", value |-> NoResult]
  /\ pc' = "done"
  /\ UNCHANGED <<RULES, SUBSTITUTIONS, text, threshold, frame>>

Next == Predict \/ PredictRaises

Spec == Init /\ [][Next]_vars

(***************************************************************************)
(* Properties.                                                             *)
(***************************************************************************)
Returned == pc = "done" /\ out.status = "returned"

\* the str the call worked on
Raw == OrEmpty(text).chars

TrueKeys(flags) == {flags[i][1] : i \in {j \in 1..Len(flags) : flags[j][2]}}

Names(pairs) == {pairs[i][1] : i \in 1..Len(pairs)}

\* the number of groups of tag_map with at least one phrase in the text
GroupsHit(tag_map, s) ==
  LET t == _normalize(s)
  IN Cardinality({i \in 1..Len(tag_map) :
       \E j \in 1..Len(tag_map[i][2]) :
          LET p == strip(lower(tag_map[i][2][j]))
          IN p # <<>> /\ contains(t, p)})

\* C1: rule_flags has exactly one key blocked_term:<term> for each never-say
\* term, and its value is true iff the normalized term (trimmed, lower-cased,
\* whitespace runs collapsed) is a substring of the normalized text.
C1_RuleFlagsMatchNormalized ==
  Returned =>
    LET rf == out.value.rule_flags
        t == _normalize(Raw)
    IN /\ DictKeys(rf) = {BlockedPrefix \o RULES[i] : i \in 1..Len(RULES)}
       /\ \A i, j \in 1..Len(rf) : rf[i][1] = rf[j][1] => i = j
       /\ \A i \in 1..Len(RULES) :
            DictGet(rf, BlockedPrefix \o RULES[i]) = contains(t, _normalize(RULES[i]))

\* C2: whenever a rule flag is triggered, confidence_bucket is medium or low,
\* whatever positive-trait groups, tone-tag groups and pressure flags the
\* text also matches.
C2_RuleTriggeredNeverHigh ==
  (Returned /\ TrueKeys(out.value.rule_flags) # {}) =>
     out.value.confidence_bucket \in {"medium", "low"}

\* a decimal in units of 0.005, clamped to [0.05, 0.92]
ClampDecimal(x) == IF x < 10 THEN 10 ELSE IF x > 184 THEN 184 ELSE x

\* 0.42 + 0.08*min(P,5) + 0.05*min(T,4) - 0.18*[rule] - 0.06*[pressure >= 3]
DecimalScore(P, T, rule, pressure) ==
  ClampDecimal(84 + 16 * Min2(P, 5) + 10 * Min2(T, 4)
               - (IF rule THEN 36 ELSE 0) - (IF pressure THEN 12 ELSE 0))

\* a binary64 that is the decimal x up to the rounding of a few operations
RoundingSlack == 200 * 1024
NearDecimal(d, x) == d.n = x /\ d.e <= RoundingSlack /\ -d.e <= RoundingSlack

C4_RoutingDecisionTable ==
  Returned =>
    LET routing == out.value.routing
        bucket == out.value.confidence_bucket
        rule == TrueKeys(out.value.rule_flags) # {}
        behaviors == Cardinality(TrueKeys(out.value.behavior_flags))
    IN /\ routing \in {RouteRule, RouteHigh, RouteMedium, RouteLow}
       /\ routing = RouteRule <=> rule
       /\ routing = RouteHigh <=> (~rule /\ bucket = "high" /\ behaviors >= 1)
       /\ routing = RouteMedium <=>
            (~rule /\ ~(bucket = "high" /\ behaviors >= 1) /\ bucket \in {"high", "medium"})
       /\ routing = RouteLow <=> (~rule /\ bucket = "low")

\* the rule-triggered message wins over a high bucket with behavior flags
C4_Witness ==
  /\ Returned
  /\ out.value.routing = RouteRule
  /\ out.value.confidence_bucket = "high"
  /\ TrueKeys(out.value.behavior_flags) # {}

\* a threshold clamped to the slider's range
ClampThreshold(th) ==
  IF th < SliderMin THEN SliderMin ELSE IF th > SliderMax THEN SliderMax ELSE th

\* C5: a threshold outside [0.20, 0.90] gives the same result as the nearest
\* end of the range, without raising.
C5_ThresholdClamped ==
  pc = "done" => out = predict(text, ClampThreshold(threshold))

\* C6: for a null text or any non-string text, predict does not raise and
\* returns the same result as for the empty string.
C6_TotalOverText ==
  (pc = "done" /\ text.kind # "str") => out = predict(PyStr(<<>>), threshold)

Range(s) == {s[i] : i \in 1..Len(s)}

\* the unclamped sum of the confidence, in units of 0.005
DecimalBase(P, T, rule, pressure) ==
  84 + 16 * Min2(P, 5) + 10 * Min2(T, 4)
  - (IF rule THEN 36 ELSE 0) - (IF pressure THEN 12 ELSE 0)

\* the behavior count is >= 3 and the 0.06 penalty is in the confidence sum
PressurePenaltyApplied ==
  /\ frame.behaviors_count >= 3
  /\ NearDecimal(frame.base,
       DecimalBase(GroupsHit(POSITIVE_SIGNALS, Raw), GroupsHit(TONE_TAGS, Raw),
                   TrueKeys(out.value.rule_flags) # {}, TRUE))

\* C7 as stated: with 3 or more pressure terms detected, the behavior count
\* is >= 3, the 0.06 penalty is applied, and every triggered pressure flag is
\* in the tone list before filtering at 0.85 and in the risk list before
\* filtering at 0.90.
C7_EveryPressureFlagListed ==
  (Returned /\ Cardinality(TrueKeys(out.value.behavior_flags)) >= 3) =>
     /\ PressurePenaltyApplied
     /\ \A k \in TrueKeys(out.value.behavior_flags) :
          /\ <<k, Lit(170)>> \in Range(frame.tones)
          /\ <<k, Lit(180)>> \in Range(frame.risks)

\* the tone-tag groups that score above the 0.85 of a behavior flag
StrongTones ==
  {i \in 1..Len(frame.tone_evidence) :
     ~FGeq(Lit(170), frame.tone_evidence[i][2])}

\* C7 as amended: with 3 or more pressure terms detected, the behavior count
\* is >= 3 and the 0.06 penalty is applied; every triggered pressure flag is
\* in the tone list before filtering at 0.85 when the tone tags scoring above
\* 0.85 plus the triggered pressure flags are at most 8, and in the risk list
\* before filtering at 0.90 when the triggered rule flags plus the triggered
\* pressure flags are at most 10.
C7_PressureFlagsListedWithinTopN ==
  (Returned /\ Cardinality(TrueKeys(out.value.behavior_flags)) >= 3) =>
     LET pressure == TrueKeys(out.value.behavior_flags)
         rules == TrueKeys(out.value.rule_flags)
     IN /\ PressurePenaltyApplied
        /\ Cardinality(StrongTones) + Cardinality(pressure) <= 8 =>
             \A k \in pressure : <<k, Lit(170)>> \in Range(frame.tones)
        /\ Cardinality(rules) + Cardinality(pressure) <= 10 =>
             \A k \in pressure : <<k, Lit(180)>> \in Range(frame.risks)

\* seven pressure flags, a strong tone tag and rule flags, all listed
C7_Witness ==
  /\ Returned
  /\ Cardinality(TrueKeys(out.value.behavior_flags)) = 7
  /\ Cardinality(StrongTones) = 1
  /\ Len(frame.tones) = 8
  /\ Cardinality(TrueKeys(out.value.rule_flags)) >= 1
  /\ \A k \in TrueKeys(out.value.behavior_flags) :
       <<k, Lit(170)>> \in Range(frame.tones) /\ <<k, Lit(180)>> \in Range(frame.risks)

\* C8: in risk_flags every entry of a triggered rule flag has score 0.99 and
\* precedes every entry of a behavior flag (score 0.90); no two entries have
\* the same name; the scores are non-increasing; there are at most 10 entries.
C8_RiskListOrder ==
  Returned =>
    LET risks == out.value.risk_flags
        ruleKeys == TrueKeys(out.value.rule_flags)
        behaviorKeys == TrueKeys(out.value.behavior_flags)
    IN /\ \A i \in 1..Len(risks) :
            /\ risks[i][1] \in ruleKeys \cup behaviorKeys
            /\ risks[i][1] \in ruleKeys => risks[i][2] = Lit(198)
            /\ risks[i][1] \in behaviorKeys => risks[i][2] = Lit(180)
       /\ \A i, j \in 1..Len(risks) :
            (risks[i][1] \in ruleKeys /\ risks[j][1] \in behaviorKeys) => i < j
       /\ \A i, j \in 1..Len(risks) : risks[i][1] = risks[j][1] => i = j
       /\ \A i \in 1..(Len(risks) - 1) : FGeq(risks[i][2], risks[i + 1][2])
       /\ Len(risks) <= 10

\* rule entries and behavior entries together, cut to ten
C8_Witness ==
  /\ Returned
  /\ Len(out.value.risk_flags) = 10
  /\ Cardinality(TrueKeys(out.value.rule_flags))
       + Cardinality(TrueKeys(out.value.behavior_flags)) > 10
  /\ Names(out.value.risk_flags) \cap TrueKeys(out.value.rule_flags) # {}
  /\ Names(out.value.risk_flags) \cap TrueKeys(out.value.behavior_flags) # {}

RECURSIVE IsSubList(_, _)
\* a is b with some entries left out
IsSubList(a, b) ==
  IF a = <<>> THEN TRUE
  ELSE IF b = <<>> THEN FALSE
  ELSE IF Head(a) = Head(b) THEN IsSubList(Tail(a), Tail(b))
  ELSE IsSubList(a, Tail(b))

\* what predict(text, s) returns, given the locals l of the call on text
ResultAt(s, l) == Result(Raw, s, l)

\* hi differs from lo only by entries filtered out of tone_tags and risk_flags
OnlyFiltered(hi, lo) ==
  /\ hi.rule_flags = lo.rule_flags
  /\ hi.behavior_flags = lo.behavior_flags
  /\ hi.confidence_score = lo.confidence_score
  /\ hi.confidence_bucket = lo.confidence_bucket
  /\ hi.routing = lo.routing
  /\ hi.rewrite_guidance = lo.rewrite_guidance
  /\ hi.substitution_suggestions = lo.substitution_suggestions
  /\ IsSubList(hi.tone_tags, lo.tone_tags)
  /\ IsSubList(hi.risk_flags, lo.risk_flags)

\* C9: for s1 <= s2, predict(text, s2) has the same rule_flags,
\* behavior_flags, confidence_score, confidence_bucket, routing,
\* rewrite_guidance and substitution_suggestions as predict(text, s1), and
\* its tone_tags and risk_flags are order-preserving sub-lists of those of
\* predict(text, s1).
C9_SensitivityOnlyFilters ==
  Returned =>
    \A s \in Thresholds :
      s >= threshold => OnlyFiltered(ResultAt(s, frame), out.value)

\* raising the threshold from 0.50 to 0.90 drops some tone tags, not all
C9_Witness ==
  /\ Returned
  /\ threshold = 50
  /\ Len(ResultAt(90, frame).tone_tags) < Len(out.value.tone_tags)
  /\ ResultAt(90, frame).tone_tags # <<>>
  /\ out.value.risk_flags # <<>>

\* C10: for every threshold in [0.20, 0.90] no risk entry is removed by the
\* threshold filter: risk_flags is the ranked, truncated risk list, the same
\* for all thresholds of the range, whose display floor never exceeds 0.65.
C10_GuardrailsAlwaysApply ==
  (Returned /\ threshold \in SliderMin..SliderMax) =>
     /\ out.value.risk_flags = frame.risks
     /\ \A s \in SliderMin..SliderMax :
          /\ Surface(frame.risks, show_min(s)) = out.value.risk_flags
          /\ FGeq(Lit(130), show_min(s))

\* at the top of the range tone tags are filtered and the risks all stay
C10_Witness ==
  /\ Returned
  /\ threshold = SliderMax
  /\ Len(out.value.tone_tags) < Len(frame.tones)
  /\ Len(out.value.risk_flags) >= 2
  /\ out.value.risk_flags = frame.risks

\* the text of the call is a str that is empty or only whitespace
BlankText == text.kind = "str" /\ strip(text.chars) = <<>>

\* C11: for empty or whitespace-only text and any configured rule set,
\* predict does not raise and returns a result in which every rule_flags
\* value is false, every behavior_flags value is false, confidence_bucket is
\* low, routing is the low-confidence message, and tone_tags and risk_flags
\* are empty.
C11_BlankTextNoSignal ==
  (pc = "done" /\ BlankText) =>
     /\ out.status = "returned"
     /\ TrueKeys(out.value.rule_flags) = {}
     /\ TrueKeys(out.value.behavior_flags) = {}
     /\ out.value.confidence_bucket = "low"
     /\ out.value.routing = RouteLow
     /\ out.value.tone_tags = <<>>
     /\ out.value.risk_flags = <<>>

\* the hints of the keys whose normalized form is found in the normalized
\* text t, in the order of the map
ExpectedHints(subs, t) ==
  SelectSeq([i \in 1..Len(subs) |-> <<"Replace", subs[i][1], subs[i][2]>>],
            LAMBDA h : phrase_hit(t, _normalize(h[2])) = 1)

\* C12: substitution_suggestions has exactly one hint for each key of the
\* substitution map found in the text by the normalized containment test of
\* the Signal Matcher and none for any other key, in the insertion order of
\* the map; when no key is found it is the empty list.
C12_HintsMatchNormalized ==
  Returned =>
    out.value.substitution_suggestions = ExpectedHints(SUBSTITUTIONS, _normalize(Raw))

====
